---- MODULE Spec2Model ----
(***************************************************************************)
(* MVC todo list (src/index.js): the observable state container, the view, *)
(* the controller's event handlers and promise continuations, the network  *)
(* between the page and the /todos resource, and the resource itself.      *)
(*                                                                         *)
(* JavaScript runs every handler to completion, so each listener and each  *)
(* promise continuation is one action.  A message in `requests` is a fetch *)
(* the resource has not answered yet; a message in `responses` is an       *)
(* answer (or a transport failure) whose continuation has not run yet.     *)
(***************************************************************************)
EXTENDS Integers, Sequences, FiniteSets, TLC

\* ------------------------------------------------------------------ bounds
MaxFlows == 2
MaxInitial == 1
MaxFaults == 1
MaxAssign == 3

\* ------------------------------------------------------------ JSON values
\* A property that is absent reads as undefined; a template prints "undefined".
Undefined == "undefined"

\* An array value, and a parsed body that is an object and no array.
Arr(s) == [type |-> "array", elems |-> s]

NotArray == [type |-> "object", elems |-> <<>>]

\* An item {id, content}; the error object {} read through .id and .content.
Item(i, c) == [id |-> i, content |-> c]

ErrorItem == Item(Undefined, Undefined)

\* An answer without a parsable body.
NoBody == [type |-> "none", elems |-> <<>>]

NoMsg == [flow |-> -1, method |-> "none"]

\* What the user can type into #todo_input.
Inputs == {"", "milk"}

\* The identifiers the resource hands out, in order.
IdTable == <<"1", "2", "3", "4", "5", "6", "7", "8">>

IdOf(n) == IdTable[n]

VARIABLES
    todos,        \* state.#todos
    onChange,     \* state.#onChange: "undefined" or the callback subscribed
    container,    \* the blocks of #todo_list-container
    inputValue,   \* #todo_input's value
    addListener,  \* whether the click listener of #todo_add-btn is attached
    pc,           \* statements of init() already executed
    requests,     \* fetches the resource has not answered
    responses,    \* answers whose continuation has not run
    server,       \* the resource's todo array
    nextId,       \* the next identifier the resource assigns
    flows,        \* add and delete flows started so far
    faults,       \* answers that were failures injected so far
    calls,        \* per probe callback: how often it ran
    seen,         \* per probe callback: state.todos as it last read it
    assigns,      \* assignments made while the container is driven by itself
    last,         \* the listener or continuation that ran last
    failed,       \* a request was rejected or answered non-2xx
    overlapped,   \* a flow started while another message was in flight
    initApplied   \* the initial getTodos() result was assigned to state.todos

vars == <<todos, onChange, container, inputValue, addListener, pc, requests,
          responses, server, nextId, flows, faults, calls, seen, assigns, last,
          failed, overlapped, initApplied>>

appVars == <<container, inputValue, addListener, pc, requests, responses,
             server, nextId, flows, faults, failed, overlapped, initApplied>>

Probes == {"probeA", "probeB"}

Event(ev, msg, threw) == [ev |-> ev, msg |-> msg, before |-> todos, threw |-> threw]

\* ------------------------------------------------------------------- view
\* renderTodos: one block per item, keyed by the item's id, with its content
\* and a delete button.
Block(todo) == [id |-> todo.id, text |-> todo.content, button |-> "todo_delete-btn"]

renderTodosReversed(list) == [i \in 1..Len(list) |-> Block(list[Len(list) + 1 - i])]

renderTodos(list) == [i \in 1..Len(list) |-> Block(list[i])]

\* todos.forEach exists only on an array.
RenderThrows(value) == value.type # "array"

\* -------------------------------------------------------- state container
\* What the getter returns while #onChange runs inside the setter.
ReadByCallbackStale(old, new) == old

ReadByCallback(old, new) == new

\* Calling #onChange throws a TypeError when nothing was subscribed, and the
\* render callback throws when the value is no array.
SetterThrows(newTodos) ==
    \/ onChange = "undefined"
    \/ onChange = "render" /\ RenderThrows(ReadByCallback(todos, newTodos))

\* set todos(newTodos): replace #todos, then call #onChange.
SetTodos(newTodos) ==
    /\ todos' = newTodos
    /\ IF onChange = "render" /\ ~RenderThrows(ReadByCallback(todos, newTodos))
       THEN container' = renderTodos(ReadByCallback(todos, newTodos).elems)
       ELSE container' = container
    /\ IF onChange \in Probes
       THEN /\ calls' = [calls EXCEPT ![onChange] = @ + 1]
            /\ seen' = [seen EXCEPT ![onChange] = ReadByCallback(todos, newTodos)]
       ELSE UNCHANGED <<calls, seen>>

\* subscribe(cb): #onChange becomes cb, whatever it held.
SubscribeKeepFirst(cb) == IF onChange = "undefined" THEN cb ELSE onChange

SubscribeValue(cb) == cb

\* ------------------------------------------------------------------- Init
\* After the module-level constructions: new model.state() (todos = [],
\* nothing subscribed), the list's click listener attached, init() not yet
\* called.  The resource starts with any of its small initial arrays.
InitialServers == {[i \in 1..n |-> Item(IdOf(i), "old")] : n \in 0..MaxInitial}

Init ==
    /\ todos = Arr(<<>>)
    /\ onChange = "undefined"
    /\ container = <<>>
    /\ inputValue = ""
    /\ addListener = FALSE
    /\ pc = 0
    /\ requests = {}
    /\ responses = {}
    /\ server \in InitialServers
    /\ nextId = Len(server) + 1
    /\ flows = 0
    /\ faults = 0
    /\ calls = [p \in Probes |-> 0]
    /\ seen = [p \in Probes |-> Arr(<<>>)]
    /\ assigns = 0
    /\ last = [ev |-> "load", msg |-> NoMsg, before |-> Arr(<<>>), threw |-> FALSE]
    /\ failed = FALSE
    /\ overlapped = FALSE
    /\ initApplied = FALSE

\* ----------------------------------------------------------------- init()
\* The statements of init(), in the order the function runs them.
InitOrderHandlerFirst == <<"setUpAddHandler", "subscribe", "getTodos">>

InitOrder == <<"subscribe", "getTodos", "setUpAddHandler">>

Ready == pc = Len(InitOrder)

Request(flow, method, origin, arg) ==
    [flow |-> flow, method |-> method, origin |-> origin, arg |-> arg]

Response(req, status, json, body) ==
    [flow |-> req.flow, method |-> req.method, origin |-> req.origin,
     arg |-> req.arg, status |-> status, json |-> json, body |-> body]

InFlight == requests # {} \/ responses # {}

\* Controller.init(): one statement of it.  Nothing else runs before the
\* script has finished, so every other action waits for Ready.
InitStep ==
    /\ pc < Len(InitOrder)
    /\ pc' = pc + 1
    /\ LET stmt == InitOrder[pc + 1] IN
       /\ onChange' = IF stmt = "subscribe" THEN SubscribeValue("render") ELSE onChange
       /\ requests' = IF stmt = "getTodos"
                      THEN requests \cup {Request(0, "GET", "init", "")}
                      ELSE requests
       /\ addListener' = IF stmt = "setUpAddHandler" THEN TRUE ELSE addListener
       /\ last' = Event(stmt, NoMsg, FALSE)
    /\ UNCHANGED <<todos, container, inputValue, responses, server, nextId, flows,
                   faults, calls, seen, assigns, failed, overlapped, initApplied>>

\* ------------------------------------------------------------ user events
\* The user edits the input field: no listener of the page runs.
TypeInput(v) ==
    /\ Ready
    /\ v # inputValue
    /\ inputValue' = v
    /\ UNCHANGED <<todos, onChange, container, addListener, pc, requests, responses,
                   server, nextId, flows, faults, calls, seen, assigns, last, failed,
                   overlapped, initApplied>>

\* getInputValue, and the newTodo object posted: {content: inputValue}.
NewTodoContentDefaulted(value) == IF value = "" THEN "untitled" ELSE value

NewTodoContent(value) == value

\* The add button's click listener.
ClickAdd ==
    /\ Ready
    /\ addListener
    /\ flows < MaxFlows
    /\ LET req == Request(flows + 1, "POST", "add", NewTodoContent(inputValue)) IN
       /\ requests' = requests \cup {req}
       /\ last' = Event("addClick", req, FALSE)
    /\ flows' = flows + 1
    /\ overlapped' = (overlapped \/ InFlight)
    /\ UNCHANGED <<todos, onChange, container, inputValue, addListener, pc, responses,
                   server, nextId, faults, calls, seen, assigns, failed, initApplied>>

\* The class name of the element clicked inside the list container: a
\* block's delete button, or the block itself.
ClassName(tag) == IF tag = "button" THEN "todo_delete-btn" ELSE ""

IsDeleteControlAny(className) == TRUE

IsDeleteControl(className) == className = "todo_delete-btn"

\* What a click on a delete control sends: deleteTodo(id) alone; getTodos()
\* is called inside its .then callback.
DeleteClickRequestsWithRefetch(flow, id) ==
    {Request(flow, "DELETE", "delete", id), Request(flow, "GET", "delete", id)}

DeleteClickRequests(flow, id) == {Request(flow, "DELETE", "delete", id)}

\* The list container's delegated click listener, for a click on element
\* `tag` of block i.
ClickList(i, tag) ==
    /\ Ready
    /\ i \in 1..Len(container)
    /\ IF IsDeleteControl(ClassName(tag))
       THEN /\ flows < MaxFlows
            /\ LET req == Request(flows + 1, "DELETE", "delete", container[i].id) IN
               /\ requests' = requests \cup DeleteClickRequests(flows + 1, container[i].id)
               /\ last' = Event(IF tag = "button" THEN "deleteClick" ELSE "otherClick",
                                req, FALSE)
            /\ flows' = flows + 1
            /\ overlapped' = (overlapped \/ InFlight)
       ELSE /\ last' = Event(IF tag = "button" THEN "deleteClick" ELSE "otherClick",
                             NoMsg, FALSE)
            /\ UNCHANGED <<requests, flows, overlapped>>
    /\ UNCHANGED <<todos, onChange, container, inputValue, addListener, pc, responses,
                   server, nextId, faults, calls, seen, assigns, failed, initApplied>>

\* ----------------------------------------------------------- the resource
\* The /todos resource and the transport, as the interface describes them:
\* GET answers 200 with the array, POST 201 with the item it stored under a
\* fresh id, DELETE 200 with {}; a DELETE of an id the array does not hold
\* is answered 404 with {}, as a REST resource does.
RemoveId(list, id) == SelectSeq(list, LAMBDA t : t.id # id)

HasId(list, id) == \E i \in 1..Len(list) : list[i].id = id

ServerGet(req) ==
    /\ req \in requests
    /\ req.method = "GET"
    /\ requests' = requests \ {req}
    /\ responses' = responses \cup {Response(req, 200, TRUE, Arr(server))}
    /\ UNCHANGED <<todos, onChange, container, inputValue, addListener, pc, server,
                   nextId, flows, faults, calls, seen, assigns, last, failed,
                   overlapped, initApplied>>

ServerPost(req) ==
    /\ req \in requests
    /\ req.method = "POST"
    /\ nextId <= Len(IdTable)
    /\ LET item == Item(IdOf(nextId), req.arg) IN
       /\ server' = Append(server, item)
       /\ responses' = responses \cup {Response(req, 201, TRUE, item)}
    /\ nextId' = nextId + 1
    /\ requests' = requests \ {req}
    /\ UNCHANGED <<todos, onChange, container, inputValue, addListener, pc, flows,
                   faults, calls, seen, assigns, last, failed, overlapped, initApplied>>

ServerDelete(req) ==
    /\ req \in requests
    /\ req.method = "DELETE"
    /\ server' = RemoveId(server, req.arg)
    /\ responses' = responses \cup
          {Response(req, IF HasId(server, req.arg) THEN 200 ELSE 404, TRUE, ErrorItem)}
    /\ requests' = requests \ {req}
    /\ UNCHANGED <<todos, onChange, container, inputValue, addListener, pc, nextId,
                   flows, faults, calls, seen, assigns, last, failed, overlapped,
                   initApplied>>

\* The body of an error answer that is JSON: an error object, no array.
ErrorBody(method) == IF method = "GET" THEN NotArray ELSE ErrorItem

\* The resource answers 500, with an error object or with a body that is
\* not JSON, and stores nothing.
ServerError(req, json) ==
    /\ req \in requests
    /\ faults < MaxFaults
    /\ faults' = faults + 1
    /\ requests' = requests \ {req}
    /\ responses' = responses \cup
          {Response(req, 500, json, IF json THEN ErrorBody(req.method) ELSE NoBody)}
    /\ UNCHANGED <<todos, onChange, container, inputValue, addListener, pc, server,
                   nextId, flows, calls, seen, assigns, last, failed, overlapped,
                   initApplied>>

\* The request never reaches the resource: fetch rejects.
TransportFailure(req) ==
    /\ req \in requests
    /\ faults < MaxFaults
    /\ faults' = faults + 1
    /\ requests' = requests \ {req}
    /\ responses' = responses \cup {Response(req, 0, FALSE, NoBody)}
    /\ UNCHANGED <<todos, onChange, container, inputValue, addListener, pc, server,
                   nextId, flows, calls, seen, assigns, last, failed, overlapped,
                   initApplied>>

\* ---------------------------------------------------------- remote access
\* fetch(...).then((res) => res.json()): fetch resolves for every status the
\* resource answers with and rejects only when the transport fails; res.json()
\* rejects when the body does not parse.
Resolves(r) == r.status # 0 /\ r.json

\* The answer is a success: 2xx with a body that parses.
Succeeded(r) == r.status \in 200..299 /\ r.json

\* ---------------------------------------------------------- continuations
\* [...state.todos, data]
AppendItemFront(list, data) == <<data>> \o list

AppendItem(list, data) == Append(list, data)

\* The spread throws unless state.todos is iterable.
SpreadThrows(value) == value.type # "array"

\* clearInput()
Cleared(value) == ""

\* init's getTodos().then((data) => { state.todos = data })
DeliverInit(r) ==
    /\ Ready
    /\ r \in responses
    /\ r.origin = "init"
    /\ responses' = responses \ {r}
    /\ IF Resolves(r)
       THEN /\ SetTodos(r.body)
            /\ last' = Event("initList", r, SetterThrows(r.body))
            /\ initApplied' = TRUE
       ELSE /\ last' = Event("initList", r, FALSE)
            /\ UNCHANGED <<todos, container, calls, seen, initApplied>>
    /\ failed' = (failed \/ ~Succeeded(r))
    /\ UNCHANGED <<onChange, inputValue, addListener, pc, requests, server, nextId,
                   flows, faults, assigns, overlapped>>

\* createTodo(newTodo).then((data) => { state.todos = [...state.todos, data];
\* view.clearInput() })
DeliverCreated(r) ==
    /\ Ready
    /\ r \in responses
    /\ r.method = "POST"
    /\ responses' = responses \ {r}
    /\ IF Resolves(r) /\ ~SpreadThrows(todos)
       THEN LET newTodos == Arr(AppendItem(todos.elems, r.body)) IN
            /\ SetTodos(newTodos)
            /\ inputValue' = IF SetterThrows(newTodos) THEN inputValue
                             ELSE Cleared(inputValue)
            /\ last' = Event("created", r, SetterThrows(newTodos))
       ELSE /\ last' = Event("created", r, Resolves(r))
            /\ UNCHANGED <<todos, container, calls, seen, inputValue>>
    /\ failed' = (failed \/ ~Succeeded(r))
    /\ UNCHANGED <<onChange, addListener, pc, requests, server, nextId, flows,
                   faults, assigns, overlapped, initApplied>>

\* What the settling of deleteTodo(id) sends: getTodos() from its .then
\* callback when the promise resolved, nothing when it rejected (the chain
\* has no catch).
RefetchRequestsRetry(r) ==
    IF Resolves(r)
    THEN {Request(r.flow, "GET", "delete", r.arg)}
    ELSE {Request(r.flow, "DELETE", "delete", r.arg)}

RefetchRequests(r) ==
    IF Resolves(r) THEN {Request(r.flow, "GET", "delete", r.arg)} ELSE {}

\* deleteTodo(id).then(() => { return model.getTodos() }).  The refetch
\* carries the id of its flow's deleted block, which the listener's closure
\* holds.
DeliverDeleted(r) ==
    /\ Ready
    /\ r \in responses
    /\ r.method = "DELETE"
    /\ responses' = responses \ {r}
    /\ requests' = requests \cup RefetchRequests(r)
    /\ last' = Event("deleted", r, FALSE)
    /\ failed' = (failed \/ ~Succeeded(r))
    /\ UNCHANGED <<todos, onChange, container, inputValue, addListener, pc, server,
                   nextId, flows, faults, calls, seen, assigns, overlapped,
                   initApplied>>

\* What the delete flow assigns once its refetch has resolved: the fetched
\* data, whatever the collection held and whichever id was deleted.
RefetchedTodosSpliced(current, data, id) ==
    IF current.type = "array" THEN Arr(RemoveId(current.elems, id)) ELSE data

RefetchedTodosKeepNewer(current, data, id) ==
    IF current.type = "array" /\ data.type = "array"
    THEN Arr(data.elems \o SelectSeq(current.elems,
                                     LAMBDA t : t.id # id /\ ~HasId(data.elems, t.id)))
    ELSE data

RefetchedTodos(current, data, id) == data

\* ....then((data) => { state.todos = data })
DeliverRefetch(r) ==
    /\ Ready
    /\ r \in responses
    /\ r.method = "GET"
    /\ r.origin = "delete"
    /\ responses' = responses \ {r}
    /\ IF Resolves(r)
       THEN LET newTodos == RefetchedTodos(todos, r.body, r.arg) IN
            /\ SetTodos(newTodos)
            /\ last' = Event("refetched", r, SetterThrows(newTodos))
       ELSE /\ last' = Event("refetched", r, FALSE)
            /\ UNCHANGED <<todos, container, calls, seen>>
    /\ failed' = (failed \/ ~Succeeded(r))
    /\ UNCHANGED <<onChange, inputValue, addListener, pc, requests, server, nextId,
                   flows, faults, assigns, overlapped, initApplied>>

\* ---------------------------------------------------------- specification
Next ==
    \/ InitStep
    \/ \E v \in Inputs : TypeInput(v)
    \/ ClickAdd
    \/ \E i \in 1..Len(container), tag \in {"button", "div"} : ClickList(i, tag)
    \/ \E req \in requests : ServerGet(req)
    \/ \E req \in requests : ServerPost(req)
    \/ \E req \in requests : ServerDelete(req)
    \/ \E req \in requests, json \in BOOLEAN : ServerError(req, json)
    \/ \E req \in requests : TransportFailure(req)
    \/ \E r \in responses : DeliverInit(r)
    \/ \E r \in responses : DeliverCreated(r)
    \/ \E r \in responses : DeliverDeleted(r)
    \/ \E r \in responses : DeliverRefetch(r)

Spec == Init /\ [][Next]_vars

\* ------------------------------------------- the state container by itself
\* Model.state driven directly: any sequence of subscribe(cb) and of
\* assignments to todos, the callbacks being probes that count their calls
\* and record what state.todos reads when they run.
AssignValues ==
    {Arr(<<>>), Arr(<<Item("1", "milk")>>), Arr(<<Item("1", "milk"), Item("2", "")>>)}

Subscribe(cb) ==
    /\ onChange' = SubscribeValue(cb)
    /\ last' = Event("subscribe", [flow |-> -1, method |-> "subscribe", cb |-> cb], FALSE)
    /\ UNCHANGED <<todos, calls, seen, assigns>>
    /\ UNCHANGED appVars

Assign(v) ==
    /\ assigns < MaxAssign
    /\ assigns' = assigns + 1
    /\ SetTodos(v)
    /\ last' = Event("assign", [flow |-> -1, method |-> "set", value |-> v],
                     SetterThrows(v))
    /\ UNCHANGED <<onChange, inputValue, addListener, pc, requests, responses, server,
                   nextId, flows, faults, failed, overlapped, initApplied>>

InitState == Init /\ server = <<>>

NextState ==
    \/ \E cb \in Probes : Subscribe(cb)
    \/ \E v \in AssignValues : Assign(v)

SpecState == InitState /\ [][NextState]_vars

\* ------------------------------------------------------------------ claims
\* The answer resolved to a list: it arrived, parsed, and is an array.
ResolvedToList(r) == r.status # 0 /\ r.json /\ r.body.type = "array"

\* C1: every assignment to state.todos made while a callback is subscribed
\* runs that callback exactly once, within the assignment, and the callback
\* reads the list just assigned.
C1_CallbackOncePerAssignment ==
    [][(assigns' = assigns + 1 /\ onChange \in Probes) =>
          /\ todos' = last'.msg.value
          /\ calls' = [calls EXCEPT ![onChange] = @ + 1]
          /\ seen'[onChange] = last'.msg.value]_vars

C1_Witness ==
    /\ last.ev = "assign"
    /\ onChange \in Probes
    /\ calls[onChange] = 2
    /\ todos = last.msg.value
    /\ seen[onChange] = todos
    /\ todos # last.before

\* C2: when createTodo resolves with item x, the collection becomes the
\* collection held just before with x appended last, and the input field
\* reads "", whatever else is in flight.
C2_AddAppendsAndClears ==
    [][\A r \in responses :
          (r.method = "POST" /\ Succeeded(r) /\ r \notin responses') =>
              /\ todos' = Arr(Append(todos.elems, r.body))
              /\ inputValue' = ""]_vars

\* C3: in a delete flow, once the refetch has resolved to a list L2 the
\* collection is L2 exactly; neither the click nor deleteTodo's resolution
\* writes the collection.
C3_DeleteRefetchReplaces ==
    /\ (last.ev = "refetched" /\ ResolvedToList(last.msg)) => todos = last.msg.body
    /\ last.ev \in {"deleteClick", "deleted"} => todos = last.before

C3_Witness ==
    /\ last.ev = "refetched"
    /\ ResolvedToList(last.msg)
    /\ last.before.type = "array"
    /\ HasId(last.before.elems, last.msg.arg)
    /\ todos = last.msg.body
    /\ todos # Arr(RemoveId(last.before.elems, last.msg.arg))

\* C4: if init's getTodos() resolves to a list L, then once its continuation
\* has run the container holds Len(L) blocks, in L's order, the i-th keyed by
\* the id of L[i].
C4_InitialRender ==
    (last.ev = "initList" /\ ResolvedToList(last.msg)) =>
        /\ Len(container) = Len(last.msg.body.elems)
        /\ \A i \in 1..Len(container) : container[i].id = last.msg.body.elems[i].id

C4_Witness ==
    /\ last.ev = "initList"
    /\ ResolvedToList(last.msg)
    /\ Len(last.msg.body.elems) = 2
    /\ Len(container) = 2
    /\ container[1].id # container[2].id

\* The initial fetch is over, nothing is in flight, nothing has failed.
Quiescent == initApplied /\ ~InFlight /\ ~failed

\* C5 as stated: in every quiescent state, for every interleaving, the
\* collection equals the resource's array.
C5_MirrorAlways == Quiescent => todos = Arr(server)

\* C5 as amended: the same, provided no flow was started while another
\* request or response was still in flight.
C5_MirrorWhenSequential == (Quiescent /\ ~overlapped) => todos = Arr(server)

C5_Witness ==
    /\ Quiescent
    /\ ~overlapped
    /\ flows = 2
    /\ last.ev = "created"
    /\ Len(server) = 2
    /\ todos = Arr(server)

\* C6: a request of an add or delete flow that fails (transport failure,
\* non-2xx status or unparsable body) writes neither the collection, the
\* rendered list nor the input field, and the flow sends nothing further.
C6_FailedRequestChangesNothing ==
    [][\A r \in responses :
          (r.origin # "init" /\ ~Succeeded(r) /\ r \notin responses') =>
              UNCHANGED <<todos, container, inputValue, requests>>]_vars

\* C7: a click inside the list container on an element that is no delete
\* control sends no request and leaves collection, rendered list and input
\* field as they were.
C7_OtherClickNoEffect ==
    [][(last'.ev = "otherClick" /\ last' # last) =>
          UNCHANGED <<todos, container, inputValue, requests, responses, flows>>]_vars

C7_Witness ==
    /\ last.ev = "otherClick"
    /\ Len(container) >= 1
    /\ todos = last.before
    /\ flows < MaxFlows

\* C8: assigning state.todos when subscribe was never called raises no error
\* and stores the assigned list.
C8_SilentWithoutSubscriber ==
    (last.ev = "assign" /\ onChange = "undefined") =>
        (~last.threw /\ todos = last.msg.value)

\* A message of init's getTodos() is in flight.
InitFetchInFlight == \E m \in requests \cup responses : m.origin = "init"

\* C9 as stated: the add handler is attached, a createTodo request sent and
\* an add response applied only after the initial list was assigned.
C9_HandlerAfterInitialList ==
    /\ addListener => initApplied
    /\ (\E m \in requests \cup responses : m.method = "POST") => initApplied
    /\ last.ev = "created" => initApplied

\* C9 as amended: init subscribes the render callback, then sends
\* getTodos(), then attaches the add handler at once, the answer still
\* outstanding; so nothing is sent, and no answer applied, before the render
\* callback is subscribed and the initial getTodos() is sent.
C9_InitOrder ==
    /\ last.ev = "getTodos" => (onChange = "render" /\ ~addListener)
    /\ last.ev = "setUpAddHandler" =>
          (onChange = "render" /\ InitFetchInFlight /\ ~initApplied)
    /\ addListener => onChange = "render"
    /\ (flows > 0 \/ InFlight \/ initApplied) => onChange = "render"

C9_Witness ==
    /\ last.ev = "created"
    /\ ~initApplied
    /\ InitFetchInFlight
    /\ todos.type = "array"
    /\ Len(todos.elems) = 1

\* C10: an answer with a non-2xx status never reaches the caller as a
\* resolved value: a non-2xx answer to createTodo appends nothing, one to
\* deleteTodo starts no refetch, and one to getTodos replaces nothing.
C10_NonOkNeverResolves ==
    /\ (last.ev = "created" /\ last.msg.status \notin 200..299) => todos = last.before
    /\ (last.ev = "deleted" /\ last.msg.status \notin 200..299) =>
          ~\E q \in requests : q.flow = last.msg.flow
    /\ (last.ev \in {"initList", "refetched"} /\ last.msg.status \notin 200..299) =>
          todos = last.before


\* C11: subscribe replaces: after any sequence of subscribe calls the
\* callback held is the one subscribed last, and an assignment runs that
\* callback exactly once and no callback subscribed earlier.
C11_SubscribeReplaces ==
    [][/\ last'.ev = "subscribe" => onChange' = last'.msg.cb
       /\ assigns' = assigns + 1 =>
             /\ onChange' = onChange
             /\ \A p \in Probes :
                   calls'[p] = calls[p] + (IF p = onChange THEN 1 ELSE 0)]_vars

C11_Witness ==
    /\ last.ev = "assign"
    /\ onChange = "probeB"
    /\ calls["probeA"] = 1
    /\ calls["probeB"] = 1
    /\ seen["probeA"] # seen["probeB"]


\* C12: the add flow validates nothing: for every input value v at the
\* moment of the add click, the empty string included, the click sends
\* exactly one createTodo request, and its payload is {content: v}.
C12_AddSendsInputVerbatim ==
    [][(last'.ev = "addClick" /\ flows' = flows + 1) =>
          /\ Cardinality(requests' \ requests) = 1
          /\ requests \subseteq requests'
          /\ \A q \in requests' \ requests :
                q.method = "POST" /\ q.arg = inputValue /\ q = last'.msg]_vars

C12_Witness ==
    /\ last.ev = "addClick"
    /\ last.msg.arg = ""
    /\ last.msg \in requests
    /\ \E q \in requests \cup responses : q.method = "POST" /\ q.arg = "milk"


\* Some continuation can run for answer r now.
Deliverable(r) ==
    ENABLED (DeliverInit(r) \/ DeliverCreated(r) \/ DeliverDeleted(r) \/ DeliverRefetch(r))

\* The collection held an item the resource holds, and holds it no more.
LostItem ==
    /\ last.before.type = "array"
    /\ todos.type = "array"
    /\ \E i \in 1..Len(last.before.elems) :
          /\ HasId(server, last.before.elems[i].id)
          /\ ~HasId(todos.elems, last.before.elems[i].id)

\* C13: answers are applied in arrival order, with no ordering between
\* flows: once the script has run, every answer in flight can be applied
\* next, and a list answer replaces the collection whatever it held, so a
\* stale list can drop an item that was appended and that the resource holds
\* (the witness).
C13_ArrivalOrderWins ==
    /\ Ready => \A r \in responses : Deliverable(r)
    /\ (last.ev \in {"initList", "refetched"} /\ ResolvedToList(last.msg)) =>
          todos = last.msg.body

C13_Witness ==
    /\ last.ev \in {"initList", "refetched"}
    /\ ResolvedToList(last.msg)
    /\ last.msg.status = 200
    /\ ~failed
    /\ ~InFlight
    /\ LostItem


\* The resource gives every item an id of its own and lists no item twice.
ServerIdsDistinct ==
    \A i, j \in 1..Len(server) : i # j => server[i].id # server[j].id

\* C14: the resource's ids being distinct, the collection never holds two
\* items with the same id, for every interleaving of add answers with list
\* answers.
C14_CollectionIdsDistinct ==
    (ServerIdsDistinct /\ todos.type = "array") =>
        \A i, j \in 1..Len(todos.elems) :
            i # j => todos.elems[i].id # todos.elems[j].id


\* The ids of a sequence of items or of blocks, in order.
IdsOf(list) == [i \in 1..Len(list) |-> list[i].id]

\* C15: once init has subscribed the render callback, between events the
\* block ids rendered in the container are the item ids of the collection,
\* same length and order.
C15_ViewMirrorsModel ==
    onChange = "render" => IdsOf(container) = IdsOf(todos.elems)


\* The promise of the fetch answered by r resolved: its .then callback runs.
PromiseResolved(r) == r.status # 0 /\ r.json

\* The answers whose continuation runs in this step.
Consumed == responses \ responses'

====
